---- MODULE Spec2Model ----
(***************************************************************************)
(* Model of app.py, the interactive poster generator (a Streamlit script). *)
(*                                                                         *)
(* Reals are fixed-point integers in thousandths (0.15 is 150); a product  *)
(* of two such numbers is divided by 1000 again.  The two library          *)
(* generators (the `random` module and numpy's `np.random`) are modelled   *)
(* as a stream position: a generator is the seed it was last seeded with   *)
(* and the number of draws taken since; a draw is a fixed function of      *)
(* both.  The generators are global to the process, so they keep their     *)
(* state from one script run to the next.                                  *)
(***************************************************************************)
EXTENDS Integers, Sequences, FiniteSets, TLC

(* ------------------------------ bounds -------------------------------- *)

\* Seeds are 0..MaxSeed (the source draws them from 0..10000, line 138).
MaxSeed == 1
\* The Layers slider goes up to MaxLayers (20 in the source, line 128).
MaxLayers == 4
\* The session's palette holds at most MaxStore colours (unbounded in the source).
MaxStore == 3
\* The session starts with the first InitStore of the nine default colours.
InitStore == 2
\* Vertices of an outline (the source's default is points=200, lines 11, 19).
points == 4
\* Distinct values a uniform draw can take (a float in [0,1) in the source).
Levels == 4

(* ------------------------- program constants -------------------------- *)

\* st.sidebar.slider("Layers", 3, 20, 8): the lower end.
MinLayers == 3
\* make_palette(6, ...): the palette size k draw_poster asks for.
K == 6
\* make_palette's base_h=0.60 default, in thousandths.
base_h == 600

PaletteModes == {"pastel", "vivid", "mono", "random", "custom"}
Shapes == {"blob", "heart"}
\* Two positions of the Wobble slider (0.01 .. 0.5), in thousandths.
Wobbles == {150, 500}
\* Colours a colour picker can return, as 8-bit (r,g,b): #F7F7F7 and #FF0000
\* are the two pickers' defaults.
BgPicks == {<<247, 247, 247>>}
AddPicks == {<<255, 0, 0>>}
\* Names typed into the Add Color form: its default, and one that is taken.
AddNames == {"new_color", "light_blue"}

\* The nine default colours of st.session_state.palette, in thousandths.
DefaultPalette ==
  << [name |-> "powder_blue",   r |-> 690, g |-> 870, b |-> 900],
     [name |-> "light_blue",    r |-> 670, g |-> 840, b |-> 900],
     [name |-> "deep_sky",      r |-> 0,   g |-> 740, b |-> 1000],
     [name |-> "dodger_blue",   r |-> 110, g |-> 560, b |-> 1000],
     [name |-> "royal_blue",    r |-> 250, g |-> 410, b |-> 880],
     [name |-> "medium_blue",   r |-> 0,   g |-> 0,   b |-> 800],
     [name |-> "dark_blue",     r |-> 0,   g |-> 0,   b |-> 540],
     [name |-> "navy_blue",     r |-> 0,   g |-> 0,   b |-> 500],
     [name |-> "midnight_blue", r |-> 90,  g |-> 90,  b |-> 430] >>

(* --------------------------- the generators --------------------------- *)

\* A generator: the seed it holds and the draws taken since seeding.
Seeded(s) == [s |-> s, n |-> 0]

\* The next float of the `random` module's stream, in thousandths of [0,1).
PyFloat(g) == (((g.s * 7 + g.n * 5 + (g.n * g.n) \div 3 + 1) % Levels) * 1000) \div Levels

\* The next float of numpy's stream; the two libraries seed differently, so
\* the same seed gives another stream.
NpFloat(g) == (((g.s * 3 + g.n * 7 + (g.n * g.n) \div 2 + 2) % Levels) * 1000) \div Levels

Advance(g, k) == [g EXCEPT !.n = @ + k]

\* random.random(): value and generator after the draw.
random_random(g) == [v |-> PyFloat(g), g |-> Advance(g, 1)]

\* random.uniform(a, b) = a + (b-a) * random().
random_uniform(g, a, b) == [v |-> a + ((b - a) * PyFloat(g)) \div 1000, g |-> Advance(g, 1)]

\* random.choice(seq): one draw selects an index; not defined on an empty seq.
random_choice(g, seq) == [v |-> seq[(PyFloat(g) * Len(seq)) \div 1000 + 1], g |-> Advance(g, 1)]

\* random.randint(0, hi).
random_randint(g, hi) == [v |-> (PyFloat(g) * (hi + 1)) \div 1000, g |-> Advance(g, 1)]

\* np.random.rand(n): n floats of numpy's stream.
np_random_rand(g, n) == [v |-> [j \in 1..n |-> NpFloat(Advance(g, j - 1))], g |-> Advance(g, n)]

(* ------------------------ colour conversions -------------------------- *)

\* matplotlib.colors.to_rgb of a "#RRGGBB" string: each channel / 255.
to_rgb(hex) == << (hex[1] * 1000) \div 255, (hex[2] * 1000) \div 255, (hex[3] * 1000) \div 255 >>

\* matplotlib.colors.hsv_to_rgb, h, s, v in [0,1].
hsv_to_rgb(h, s, v) ==
  LET i == (h * 6) \div 1000
      f == (h * 6) % 1000
      p == (v * (1000 - s)) \div 1000
      q == (v * (1000 - (s * f) \div 1000)) \div 1000
      t == (v * (1000 - (s * (1000 - f)) \div 1000)) \div 1000
  IN  IF s = 0 THEN <<v, v, v>>
      ELSE CASE i % 6 = 0 -> <<v, t, p>>
             [] i % 6 = 1 -> <<q, v, p>>
             [] i % 6 = 2 -> <<p, v, t>>
             [] i % 6 = 3 -> <<p, q, v>>
             [] i % 6 = 4 -> <<t, p, v>>
             [] OTHER     -> <<v, p, q>>

(* ------------------------------ shapes -------------------------------- *)

\* cos and sin of 2*pi*j/n in thousandths, for n = 1..6.
CosTab ==
  << <<1000>>,
     <<1000, -1000>>,
     <<1000, -500, -500>>,
     <<1000, 0, -1000, 0>>,
     <<1000, 309, -809, -809, 309>>,
     <<1000, 500, -500, -1000, -500, 500>> >>
SinTab ==
  << <<0>>,
     <<0, 0>>,
     <<0, 866, -866>>,
     <<0, 1000, 0, -1000>>,
     <<0, 951, 588, -588, -951>>,
     <<0, 866, 866, 0, -866, -866>> >>

\* np.cos / np.sin of k * linspace(0, 2*pi, n, endpoint=False)[j], j from 0.
Cos(k, j, n) == CosTab[n][((k * j) % n) + 1]
Sin(k, j, n) == SinTab[n][((k * j) % n) + 1]

\* 1 + wobble*(u - 0.5), per vertex.
WobbleFactor(u, wobble) == 1000 + (wobble * (u - 500)) \div 1000

\* blob(center, r, points, wobble): the outline (x, y) and numpy's generator after.
blob(cx, cy, r, n, wobble, g) ==
  LET d == np_random_rand(g, n)
      radii == [j \in 1..n |-> (r * WobbleFactor(d.v[j], wobble)) \div 1000]
  IN  [x |-> [j \in 1..n |-> cx + (radii[j] * Cos(1, j - 1, n)) \div 1000],
       y |-> [j \in 1..n |-> cy + (radii[j] * Sin(1, j - 1, n)) \div 1000],
       g |-> d.g]

\* heart(center, r, points, wobble).
heart(cx, cy, r, n, wobble, g) ==
  LET d == np_random_rand(g, n)
      s(j) == Sin(1, j, n)
      base_x(j) == 16 * ((s(j) * s(j) * s(j)) \div 1000000)
      base_y(j) == 13 * Cos(1, j, n) - 5 * Cos(2, j, n) - 2 * Cos(3, j, n) - Cos(4, j, n)
      x_norm(j) == base_x(j) \div 16
      y_norm(j) == base_y(j) \div 16
      wobble_factor(j) == WobbleFactor(d.v[j], wobble)
  IN  [x |-> [j \in 1..n |-> cx + (((x_norm(j - 1) * r) \div 1000) * wobble_factor(j)) \div 1000],
       y |-> [j \in 1..n |-> cy + (((y_norm(j - 1) * r) \div 1000) * wobble_factor(j)) \div 1000],
       g |-> d.g]

(* ------------------------------ palette ------------------------------- *)

\* HsvSample with the pastel saturation and value ranges exchanged.
HsvSample_SwappedSV(mode, bh, g) ==
  LET d1 == random_random(g)
      lo == CASE mode = "pastel" -> <<900, 1000, 150, 350>>
              [] mode = "vivid"  -> <<800, 1000, 800, 1000>>
              [] mode = "mono"   -> <<200, 600, 500, 1000>>
              [] OTHER           -> <<300, 1000, 500, 1000>>
      g1 == IF mode = "mono" THEN g ELSE d1.g
      h  == IF mode = "mono" THEN bh ELSE d1.v
      d2 == random_uniform(g1, lo[1], lo[2])
      d3 == random_uniform(d2.g, lo[3], lo[4])
  IN  [v |-> hsv_to_rgb(h, d2.v, d3.v), g |-> d3.g]

\* One pass of make_palette's loop body (lines 50-58): the colour and the
\* generator after its draws.
HsvSample(mode, bh, g) ==
  LET d1 == random_random(g)
      lo == CASE mode = "pastel" -> <<150, 350, 900, 1000>>
              [] mode = "vivid"  -> <<800, 1000, 800, 1000>>
              [] mode = "mono"   -> <<200, 600, 500, 1000>>
              [] OTHER           -> <<300, 1000, 500, 1000>>
      g1 == IF mode = "mono" THEN g ELSE d1.g
      h  == IF mode = "mono" THEN bh ELSE d1.v
      d2 == random_uniform(g1, lo[1], lo[2])
      d3 == random_uniform(d2.g, lo[3], lo[4])
  IN  [v |-> hsv_to_rgb(h, d2.v, d3.v), g |-> d3.g]

RECURSIVE HsvLoop(_, _, _, _, _)
\* for _ in range(k): cols.append(...)
HsvLoop(j, mode, bh, g, cols) ==
  IF j = 0 THEN [cols |-> cols, g |-> g]
  ELSE LET d == HsvSample(mode, bh, g)
       IN  HsvLoop(j - 1, mode, bh, d.g, Append(cols, d.v))

\* FallbackMode with the fallback's name misspelt, which takes the loop's
\* else branch ("random").
FallbackMode_Else(mode, custom_palette) ==
  IF mode = "custom" /\ custom_palette = <<>> THEN "random" ELSE mode

\* The mode make_palette generates with: `mode = "pastel"` when the custom
\* palette is empty (line 43), the requested mode otherwise.
FallbackMode(mode, custom_palette) ==
  IF mode = "custom" /\ custom_palette = <<>> THEN "pastel" ELSE mode

\* make_palette returning k colours in custom mode too, cycling through the
\* custom palette.
make_palette_Padded(kk, mode, bh, custom_palette, g) ==
  IF mode = "custom" /\ custom_palette # <<>>
  THEN [cols |-> [j \in 1..kk |->
                    LET c == custom_palette[((j - 1) % Len(custom_palette)) + 1]
                    IN  <<c.r, c.g, c.b>>],
        g |-> g, warned |-> FALSE]
  ELSE LET d == HsvLoop(kk, FallbackMode(mode, custom_palette), bh, g, <<>>)
       IN  [cols |-> d.cols, g |-> d.g,
            warned |-> (mode = "custom" /\ custom_palette = <<>>)]

\* make_palette without the fallback: an empty custom palette is returned
\* as it is.
make_palette_NoFallback(kk, mode, bh, custom_palette, g) ==
  IF mode = "custom"
  THEN [cols |-> [j \in 1..Len(custom_palette) |->
                    <<custom_palette[j].r, custom_palette[j].g, custom_palette[j].b>>],
        g |-> g, warned |-> FALSE]
  ELSE LET d == HsvLoop(kk, mode, bh, g, <<>>)
       IN  [cols |-> d.cols, g |-> d.g, warned |-> FALSE]

\* make_palette(k, mode, base_h, custom_palette): the colours, the `random`
\* generator after the call, and whether st.warning was called.
make_palette(kk, mode, bh, custom_palette, g) ==
  IF mode = "custom" /\ custom_palette # <<>>
  THEN [cols |-> [j \in 1..Len(custom_palette) |->
                    <<custom_palette[j].r, custom_palette[j].g, custom_palette[j].b>>],
        g |-> g, warned |-> FALSE]
  ELSE LET d == HsvLoop(kk, FallbackMode(mode, custom_palette), bh, g, <<>>)
       IN  [cols |-> d.cols, g |-> d.g,
            warned |-> (mode = "custom" /\ custom_palette = <<>>)]

(* ------------------------------- state -------------------------------- *)

VARIABLES
  palette,   \* st.session_state.palette: the user's named colours
  seed,      \* st.session_state.seed
  ui,        \* the sidebar widgets' values
  py_rng,    \* the `random` module's global generator
  np_rng,    \* numpy's global generator
  pc,        \* where the script run is: "idle" waits for the user
  loc,       \* draw_poster's locals
  fig,       \* the figure of the current or last run
  msgs,      \* st.warning / st.error calls of the current or last run
  ref,       \* a remembered earlier composition, or NoRef
  last_edit  \* the palette edit that started this run, until it composes

vars == <<palette, seed, ui, py_rng, np_rng, pc, loc, fig, msgs, ref, last_edit>>

NoRef == [taken |-> FALSE]
NoEdit == [op |-> "none"]
NoLoc == [palette |-> <<>>, i |-> 0, cx |-> 0, cy |-> 0, rr |-> 0,
          x |-> <<>>, y |-> <<>>, color |-> <<>>, alpha |-> 0]
NoFig == [face |-> <<>>, fills |-> <<>>, title |-> <<>>]

Widgets == [n_layers : MinLayers..MaxLayers, wobble : Wobbles,
            palette_mode : PaletteModes, shape : Shapes, bg_hex : BgPicks]

\* The first script run of a session: the palette holds the default colours,
\* the seed comes from the unseeded `random` module, and the generators hold
\* whatever the process seeded them with.
Init ==
  /\ palette = SubSeq(DefaultPalette, 1, InitStore)
  /\ seed \in 0..MaxSeed
  /\ ui \in Widgets
  /\ py_rng \in {Seeded(s) : s \in 0..MaxSeed}
  /\ np_rng \in {Seeded(s) : s \in 0..MaxSeed}
  /\ pc = "run"
  /\ loc = NoLoc
  /\ fig = NoFig
  /\ msgs = <<>>
  /\ ref = NoRef
  /\ last_edit = NoEdit

(* ------------------------- the user's actions ------------------------- *)

\* Any input makes Streamlit run the script again from the top.
Rerun == /\ pc' = "run"
         /\ loc' = NoLoc
         /\ fig' = NoFig
         /\ msgs' = <<>>

\* One of the Layers / Wobble / Palette / Shape / Background widgets changes.
SetWidget(w) ==
  /\ pc = "idle"
  /\ w # ui
  /\ Cardinality({f \in DOMAIN ui : w[f] # ui[f]}) = 1
  /\ ui' = w
  /\ Rerun
  /\ UNCHANGED <<palette, seed, py_rng, np_rng, ref, last_edit>>

\* "Current Seed" number input (lines 143-144).
SetSeed(s) ==
  /\ pc = "idle"
  /\ s # seed
  /\ seed' = s
  /\ Rerun
  /\ UNCHANGED <<palette, ui, py_rng, np_rng, ref, last_edit>>

\* "New Random Layout" (lines 140-141): the seed is drawn from the `random`
\* module as the last composition left it.
NewRandomLayout ==
  /\ pc = "idle"
  /\ LET d == random_randint(py_rng, MaxSeed)
     IN  /\ seed' = d.v
         /\ py_rng' = d.g
  /\ Rerun
  /\ UNCHANGED <<palette, ui, np_rng, ref, last_edit>>

\* The entry the Add Color form appends (lines 166-172).
NewEntry(new_name, new_hex) ==
  LET new_rgb == to_rgb(new_hex)
  IN  [name |-> new_name, r |-> new_rgb[1], g |-> new_rgb[2], b |-> new_rgb[3]]

\* "Add Color" (lines 165-173).
AddColor(new_name, new_hex) ==
  /\ pc = "idle"
  /\ Len(palette) < MaxStore
  /\ palette' = Append(palette, NewEntry(new_name, new_hex))
  /\ last_edit' = [op |-> "add", name |-> new_name, before |-> palette]
  /\ Rerun
  /\ UNCHANGED <<seed, ui, py_rng, np_rng, ref>>

\* Without removing only the first entry of that name.
Without_FirstOnly(store, name_to_delete) ==
  LET first == CHOOSE m \in 1..Len(store) :
                 /\ store[m].name = name_to_delete
                 /\ \A q \in 1..(m - 1) : store[q].name # name_to_delete
  IN  IF \E m \in 1..Len(store) : store[m].name = name_to_delete
      THEN SubSeq(store, 1, first - 1) \o SubSeq(store, first + 1, Len(store))
      ELSE store

\* [c for c in palette if c["name"] != name_to_delete]
Without(store, name_to_delete) ==
  LET keep(c) == c.name # name_to_delete
  IN  SelectSeq(store, keep)

\* The select box's options (line 178).
color_names == {palette[j].name : j \in 1..Len(palette)}

\* "Delete Color" (lines 177-184).
DeleteColor(name_to_delete) ==
  /\ pc = "idle"
  /\ palette # <<>>
  /\ name_to_delete \in color_names
  /\ palette' = Without(palette, name_to_delete)
  /\ last_edit' = [op |-> "delete", name |-> name_to_delete, before |-> palette]
  /\ Rerun
  /\ UNCHANGED <<seed, ui, py_rng, np_rng, ref>>

(* ---------------------------- draw_poster ----------------------------- *)

\* The arguments of the draw_poster call of the current or last run (lines 190-198).
Args == [n_layers |-> ui.n_layers, wobble |-> ui.wobble, palette_mode |-> ui.palette_mode,
         seed |-> seed, shape |-> ui.shape, bg_color_rgb |-> to_rgb(ui.bg_hex),
         custom_palette |-> palette]

\* draw_poster returns: a remembered composition notes that a call with other
\* arguments has been made since.
Returned(r) == IF r.taken /\ Args # r.args THEN [r EXCEPT !.other = TRUE] ELSE r

\* str.title() of the shape's name.
Title(shape) == IF shape = "heart" THEN "Heart" ELSE "Blob"

\* DrawPosterSeed seeding numpy with a draw of the `random` generator as the
\* last run left it, not with the seed.
DrawPosterSeed_NumpyFromRandom ==
  /\ pc = "run"
  /\ py_rng' = Seeded(seed)
  /\ np_rng' = Seeded(random_randint(py_rng, MaxSeed).v)
  /\ fig' = [face |-> to_rgb(ui.bg_hex), fills |-> <<>>, title |-> <<>>]
  /\ pc' = "L75"
  /\ last_edit' = NoEdit
  /\ UNCHANGED <<palette, seed, ui, loc, msgs, ref>>

\* Lines 69-72: both generators are seeded, the figure is created.
DrawPosterSeed ==
  /\ pc = "run"
  /\ py_rng' = Seeded(seed)
  /\ np_rng' = Seeded(seed)
  /\ fig' = [face |-> to_rgb(ui.bg_hex), fills |-> <<>>, title |-> <<>>]
  /\ pc' = "L75"
  /\ last_edit' = NoEdit
  /\ UNCHANGED <<palette, seed, ui, loc, msgs, ref>>

\* LoopHead stopping one iteration early.
LoopHead_OffByOne(i) == IF i + 1 < ui.n_layers THEN "L78" ELSE "L94"

\* for _ in range(n_layers): the next iteration, or the code after the loop.
LoopHead(i) == IF i < ui.n_layers THEN "L78" ELSE "L94"

\* DrawPosterPalette writing the fallback colours into the session's palette.
DrawPosterPalette_StoresFallback ==
  /\ pc = "L75"
  /\ LET d == make_palette(K, ui.palette_mode, base_h, palette, py_rng)
     IN  /\ loc' = [loc EXCEPT !.palette = d.cols]
         /\ py_rng' = d.g
         /\ msgs' = IF d.warned THEN Append(msgs, "warning") ELSE msgs
         /\ palette' = IF d.warned
                       THEN [j \in 1..Len(d.cols) |->
                               [name |-> "pastel", r |-> d.cols[j][1],
                                g |-> d.cols[j][2], b |-> d.cols[j][3]]]
                       ELSE palette
  /\ pc' = LoopHead(0)
  /\ UNCHANGED <<seed, ui, np_rng, fig, ref, last_edit>>

\* Line 75: palette = make_palette(6, mode=palette_mode, custom_palette=...).
DrawPosterPalette ==
  /\ pc = "L75"
  /\ LET d == make_palette(K, ui.palette_mode, base_h, palette, py_rng)
     IN  /\ loc' = [loc EXCEPT !.palette = d.cols]
         /\ py_rng' = d.g
         /\ msgs' = IF d.warned THEN Append(msgs, "warning") ELSE msgs
  /\ pc' = LoopHead(0)
  /\ UNCHANGED <<palette, seed, ui, np_rng, fig, ref, last_edit>>

\* Line 78: cx, cy = random.random(), random.random().
LayerCentre ==
  /\ pc = "L78"
  /\ LET d1 == random_random(py_rng)
         d2 == random_random(d1.g)
     IN  /\ loc' = [loc EXCEPT !.cx = d1.v, !.cy = d2.v]
         /\ py_rng' = d2.g
  /\ pc' = "L79"
  /\ UNCHANGED <<palette, seed, ui, np_rng, fig, msgs, ref, last_edit>>

\* Line 79: rr = random.uniform(0.15, 0.45).
LayerRadius ==
  /\ pc = "L79"
  /\ LET d == random_uniform(py_rng, 150, 450)
     IN  /\ loc' = [loc EXCEPT !.rr = d.v]
         /\ py_rng' = d.g
  /\ pc' = "L81"
  /\ UNCHANGED <<palette, seed, ui, np_rng, fig, msgs, ref, last_edit>>

\* LayerShape drawing the wobble from the `random` generator.
LayerShape_PyStream ==
  /\ pc = "L81"
  /\ LET d == IF ui.shape = "heart"
              THEN heart(loc.cx, loc.cy, loc.rr, points, ui.wobble, py_rng)
              ELSE blob(loc.cx, loc.cy, loc.rr, points, ui.wobble, py_rng)
     IN  /\ loc' = [loc EXCEPT !.x = d.x, !.y = d.y]
         /\ py_rng' = d.g
  /\ pc' = "L86"
  /\ UNCHANGED <<palette, seed, ui, np_rng, fig, msgs, ref, last_edit>>

\* Lines 81-84: the outline, its wobble drawn from numpy's generator.
LayerShape ==
  /\ pc = "L81"
  /\ LET d == IF ui.shape = "heart"
              THEN heart(loc.cx, loc.cy, loc.rr, points, ui.wobble, np_rng)
              ELSE blob(loc.cx, loc.cy, loc.rr, points, ui.wobble, np_rng)
     IN  /\ loc' = [loc EXCEPT !.x = d.x, !.y = d.y]
         /\ np_rng' = d.g
  /\ pc' = "L86"
  /\ UNCHANGED <<palette, seed, ui, py_rng, fig, msgs, ref, last_edit>>

\* Lines 86-88: an empty palette ends the call with st.error.
LayerGuard ==
  /\ pc = "L86"
  /\ IF loc.palette = <<>>
     THEN /\ msgs' = Append(msgs, "error")
          /\ pc' = "idle"
          /\ ref' = Returned(ref)
     ELSE /\ msgs' = msgs
          /\ pc' = "L90"
          /\ ref' = ref
  /\ UNCHANGED <<palette, seed, ui, py_rng, np_rng, loc, fig, last_edit>>

\* Line 90: color = random.choice(palette).
LayerColor ==
  /\ pc = "L90"
  /\ LET d == random_choice(py_rng, loc.palette)
     IN  /\ loc' = [loc EXCEPT !.color = d.v]
         /\ py_rng' = d.g
  /\ pc' = "L91"
  /\ UNCHANGED <<palette, seed, ui, np_rng, fig, msgs, ref, last_edit>>

\* Line 91: alpha = random.uniform(0.3, 0.6).
LayerAlpha ==
  /\ pc = "L91"
  /\ LET d == random_uniform(py_rng, 300, 600)
     IN  /\ loc' = [loc EXCEPT !.alpha = d.v]
         /\ py_rng' = d.g
  /\ pc' = "L92"
  /\ UNCHANGED <<palette, seed, ui, np_rng, fig, msgs, ref, last_edit>>

\* LayerFill with the palette resolved again for the next layer.
LayerFill_Reresolve ==
  /\ pc = "L92"
  /\ fig' = [fig EXCEPT !.fills = Append(@, [x |-> loc.x, y |-> loc.y,
                                             color |-> loc.color, alpha |-> loc.alpha])]
  /\ loc' = [loc EXCEPT !.i = @ + 1]
  /\ pc' = IF loc.i + 1 < ui.n_layers THEN "L75" ELSE "L94"
  /\ UNCHANGED <<palette, seed, ui, py_rng, np_rng, msgs, ref, last_edit>>

\* Line 92: ax.fill(x, y, color=color, alpha=alpha, edgecolor='none').
LayerFill ==
  /\ pc = "L92"
  /\ fig' = [fig EXCEPT !.fills = Append(@, [x |-> loc.x, y |-> loc.y,
                                             color |-> loc.color, alpha |-> loc.alpha])]
  /\ loc' = [loc EXCEPT !.i = @ + 1]
  /\ pc' = LoopHead(loc.i + 1)
  /\ UNCHANGED <<palette, seed, ui, py_rng, np_rng, msgs, ref, last_edit>>

\* Lines 94-99: the title, and the figure is returned to the script, which
\* shows it and waits for the user.
DrawPosterTitle ==
  /\ pc = "L94"
  /\ fig' = [fig EXCEPT !.title = <<Title(ui.shape), ui.palette_mode>>]
  /\ pc' = "idle"
  /\ ref' = Returned(ref)
  /\ UNCHANGED <<palette, seed, ui, py_rng, np_rng, loc, msgs, last_edit>>

\* A finished composition is kept for comparison with later ones.
Remember ==
  /\ pc = "idle"
  /\ ~ref.taken
  /\ ref' = [taken |-> TRUE, other |-> FALSE, args |-> Args, fig |-> fig, msgs |-> msgs]
  /\ UNCHANGED <<palette, seed, ui, py_rng, np_rng, pc, loc, fig, msgs, last_edit>>

Compose ==
  \/ DrawPosterSeed
  \/ DrawPosterPalette
  \/ LayerCentre
  \/ LayerRadius
  \/ LayerShape
  \/ LayerGuard
  \/ LayerColor
  \/ LayerAlpha
  \/ LayerFill
  \/ DrawPosterTitle

Next ==
  \/ \E w \in Widgets : SetWidget(w)
  \/ \E s \in 0..MaxSeed : SetSeed(s)
  \/ NewRandomLayout
  \/ \E new_name \in AddNames, new_hex \in AddPicks : AddColor(new_name, new_hex)
  \/ \E name_to_delete \in color_names : DeleteColor(name_to_delete)
  \/ Compose

Spec == Init /\ [][Next]_vars

\* Sessions that keep the Layers slider at its lower end and add no colour,
\* with one finished composition remembered for comparison.
PairWidgets == {w \in Widgets : w.n_layers = MinLayers}

InitPair == Init /\ ui \in PairWidgets

NextPair ==
  \/ \E w \in PairWidgets : SetWidget(w)
  \/ \E s \in 0..MaxSeed : SetSeed(s)
  \/ NewRandomLayout
  \/ \E name_to_delete \in color_names : DeleteColor(name_to_delete)
  \/ Compose
  \/ Remember

SpecPair == InitPair /\ [][NextPair]_vars

(* ------------------------------ claims -------------------------------- *)

Range(f) == {f[j] : j \in DOMAIN f}

\* make_palette has returned to draw_poster.
Resolved == pc \notin {"run", "L75"}
\* The `random` generator as make_palette leaves a freshly seeded one.
PaletteEnd == make_palette(K, ui.palette_mode, base_h, palette, Seeded(seed)).g
\* The `random` generator k draws after the palette was resolved.
PyAt(k) == Advance(PaletteEnd, k)

\* C1. Determinism: a finished draw_poster call with the same seed, n_layers,
\* wobble, palette_mode, shape, background colour and custom palette as a
\* remembered earlier call has the same number of draw instructions and, at
\* every position, the same outline, fill colour and alpha, whatever calls
\* were made in between.
C1_Determinism ==
  (pc = "idle" /\ ref.taken /\ Args = ref.args) =>
     /\ Len(fig.fills) = Len(ref.fig.fills)
     /\ \A j \in 1..Len(fig.fills) :
          /\ fig.fills[j].x = ref.fig.fills[j].x
          /\ fig.fills[j].y = ref.fig.fills[j].y
          /\ fig.fills[j].color = ref.fig.fills[j].color
          /\ fig.fills[j].alpha = ref.fig.fills[j].alpha

\* A call with the remembered arguments has finished after a call with other
\* arguments was made in between.
C1_Witness ==
  /\ pc = "idle" /\ ref.taken /\ ref.other /\ Args = ref.args
  /\ Len(fig.fills) = ui.n_layers

\* C2. Layer count: a completed draw_poster call has emitted exactly n_layers
\* draw instructions, the j-th being layer j's (its fill colour and alpha are
\* the fourth and fifth draws of the j-th group of five after the palette).
C2_LayerCount ==
  pc = "idle" =>
     /\ Len(fig.fills) = ui.n_layers
     /\ \A j \in 1..Len(fig.fills) :
          /\ fig.fills[j].color = random_choice(PyAt(5 * (j - 1) + 3), loc.palette).v
          /\ fig.fills[j].alpha = random_uniform(PyAt(5 * (j - 1) + 4), 300, 600).v

C2_Witness ==
  /\ pc = "idle" /\ ui.n_layers = MaxLayers /\ ui.shape = "heart"
  /\ ui.palette_mode = "mono" /\ Len(fig.fills) = MaxLayers

\* A colour the pastel rule can give: value in [0.9, 1.0] and saturation in
\* [0.15, 0.35], read off the largest and smallest channel.
IsPastel(c) ==
  LET mx == CHOOSE a \in Range(c) : \A b \in Range(c) : b <= a
      mn == CHOOSE a \in Range(c) : \A b \in Range(c) : a <= b
  IN  /\ 900 <= mx /\ mx <= 1000
      /\ mn * 1000 <= 850 * mx
      /\ (mn + 1) * 1000 > 650 * mx

\* C3. Palette fallback: with mode custom and an empty custom palette,
\* make_palette warns, does not fail, and returns exactly k colours of the
\* pastel rule; every draw instruction takes its fill colour from them and no
\* empty-palette error is signalled.
C3_PaletteFallback ==
  (Resolved /\ ui.palette_mode = "custom" /\ palette = <<>>) =>
     /\ msgs = <<"warning">>
     /\ Len(loc.palette) = K
     /\ \A j \in 1..Len(loc.palette) : IsPastel(loc.palette[j])
     /\ \A j \in 1..Len(fig.fills) : fig.fills[j].color \in Range(loc.palette)

C3_Witness ==
  /\ pc = "idle" /\ ui.palette_mode = "custom" /\ palette = <<>>
  /\ Len(fig.fills) = ui.n_layers

Kept(store, n) == {m \in 1..Len(store) : store[m].name # n}
KeptAt(store, n, j) ==
  CHOOSE m \in Kept(store, n) : Cardinality({q \in Kept(store, n) : q <= m}) = j

\* C5. Deletion by name: after Delete Color of name n the store is the
\* previous store with every entry named n removed, the others unchanged and
\* in their order, and it is strictly shorter.
C5_DeleteByName ==
  last_edit.op = "delete" =>
     /\ Len(palette) = Cardinality(Kept(last_edit.before, last_edit.name))
     /\ \A j \in 1..Len(palette) :
          palette[j] = last_edit.before[KeptAt(last_edit.before, last_edit.name, j)]
     /\ Len(palette) < Len(last_edit.before)

\* Two entries shared the deleted name and another entry stays.
C5_Witness ==
  /\ last_edit.op = "delete"
  /\ Len(last_edit.before) = Len(palette) + 2
  /\ palette # <<>>

\* Draws of the `random` generator made in the current layer before pc.
LayerDraws ==
  CASE pc = "L79" -> 2
    [] pc \in {"L81", "L86", "L90"} -> 3
    [] pc = "L91" -> 4
    [] pc = "L92" -> 5
    [] OTHER -> 0
\* Outlines generated so far in this composition.
Outlines == loc.i + (IF pc \in {"L86", "L90", "L91", "L92"} THEN 1 ELSE 0)

\* C6 as stated. Single stream: the per-point wobble draws of an outline are
\* taken from the generator the following colour and alpha draws read from,
\* and no other generator is used.
C6_SingleStream ==
  [][LayerShape => (py_rng'.n = py_rng.n + points /\ np_rng' = np_rng)]_vars

\* C6 as amended. Two streams: both generators hold the call's seed; palette
\* sampling and the layers' centre, radius, colour and alpha are one ordered
\* draw sequence of the `random` generator, five draws a layer, which the
\* wobble draws do not advance; the wobble draws are `points` draws an outline
\* of numpy's generator.
C6_TwoStreams ==
  (Resolved /\ "error" \notin Range(msgs)) =>
     /\ py_rng = PyAt(5 * loc.i + LayerDraws)
     /\ np_rng = Advance(Seeded(seed), points * Outlines)

C6_Witness ==
  /\ pc = "L90" /\ loc.i = 1 /\ ui.shape = "heart"
  /\ np_rng.n = 2 * points
  /\ py_rng.n = PaletteEnd.n + 8

\* C7. Non-empty palette: whatever the mode and the custom palette, the
\* palette draw_poster gets from make_palette is not empty, the 'Palette is
\* empty' error is never signalled, and random.choice never sees an empty
\* sequence.
C7_NonEmptyPalette ==
  /\ Resolved => loc.palette # <<>>
  /\ "error" \notin Range(msgs)

C7_Witness ==
  /\ pc = "L90" /\ ui.palette_mode = "custom" /\ palette = <<>>
  /\ loc.i = 0

\* The order of draw_poster's steps.
OrderEdges ==
  { <<"run", "L75">>, <<"L75", "L78">>, <<"L78", "L79">>, <<"L79", "L81">>,
    <<"L81", "L86">>, <<"L86", "L90">>, <<"L90", "L91">>, <<"L91", "L92">>,
    <<"L92", "L78">>, <<"L92", "L94">>, <<"L94", "idle">>, <<"idle", "run">> }

\* C8. Draw ordering: the generators are seeded first; the palette is
\* resolved once, before any layer, and not again in the loop; a layer draws
\* centre x, centre y, radius, then generates its outline, then draws fill
\* colour and alpha, then emits its instruction, before the next layer draws.
C8_DrawOrder ==
  [][ /\ pc' # pc => <<pc, pc'>> \in OrderEdges
      /\ pc = "run" => (py_rng' = Seeded(seed) /\ np_rng' = Seeded(seed))
      /\ loc'.palette # loc.palette => (pc = "L75" \/ pc' = "run")
      /\ pc = "L92" =>
           /\ loc.cx = random_random(PyAt(5 * loc.i)).v
           /\ loc.cy = random_random(PyAt(5 * loc.i + 1)).v
           /\ loc.rr = random_uniform(PyAt(5 * loc.i + 2), 150, 450).v
           /\ loc.color = random_choice(PyAt(5 * loc.i + 3), loc.palette).v
           /\ loc.alpha = random_uniform(PyAt(5 * loc.i + 4), 300, 600).v
           /\ Len(fig.fills) = loc.i
           /\ fig'.fills = Append(fig.fills, [x |-> loc.x, y |-> loc.y,
                                              color |-> loc.color, alpha |-> loc.alpha])
      /\ (pc # "L92" /\ pc' # "run") => fig'.fills = fig.fills
    ]_vars

C8_Witness ==
  /\ pc = "L92" /\ ui.n_layers = MaxLayers /\ loc.i = MaxLayers - 1
  /\ Len(fig.fills) = MaxLayers - 1

\* C9. Store frame: composing leaves the custom palette store unchanged; the
\* store changes only at Add Color, which appends exactly one entry and keeps
\* the others, and at Delete Color.
C9_StoreFrame ==
  [][ /\ Compose => palette' = palette
      /\ palette' # palette =>
           \/ /\ last_edit'.op = "add"
              /\ Len(palette') = Len(palette) + 1
              /\ SubSeq(palette', 1, Len(palette)) = palette
              /\ palette'[Len(palette')].name = last_edit'.name
           \/ /\ last_edit'.op = "delete"
              /\ \E n \in color_names : DeleteColor(n)
    ]_vars

\* make_palette has taken the fallback and the store is still empty.
C9_Witness ==
  /\ pc = "L78" /\ loc.i = 0 /\ msgs = <<"warning">> /\ palette = <<>>

\* C10. Fallback equivalence: a composition with mode custom and an empty
\* custom palette emits the same draw instructions as one with mode pastel
\* and the same other inputs; they differ in the warning and in the title,
\* which names the requested mode.
C10_FallbackEquivalence ==
  ( /\ pc = "idle" /\ ref.taken
    /\ Args.custom_palette = <<>>
    /\ {Args.palette_mode, ref.args.palette_mode} = {"custom", "pastel"}
    /\ [Args EXCEPT !.palette_mode = "custom"] = [ref.args EXCEPT !.palette_mode = "custom"] )
  =>
    /\ fig.fills = ref.fig.fills
    /\ fig.title = <<Title(ui.shape), Args.palette_mode>>
    /\ ref.fig.title = <<Title(ui.shape), ref.args.palette_mode>>
    /\ msgs = IF Args.palette_mode = "custom" THEN <<"warning">> ELSE <<>>
    /\ ref.msgs = IF ref.args.palette_mode = "custom" THEN <<"warning">> ELSE <<>>

C10_Witness ==
  /\ pc = "idle" /\ ref.taken /\ palette = <<>> /\ ref.args.custom_palette = <<>>
  /\ ui.palette_mode = "pastel" /\ ref.args.palette_mode = "custom"
  /\ [Args EXCEPT !.palette_mode = "custom"] = ref.args
  /\ Len(fig.fills) = ui.n_layers

====
